---- MODULE Spec2Model ----
(***************************************************************************)
(* Model of scaletest/trafficgen/run.go: Runner.Run, drainContext,         *)
(* writeRandomData, copyContext and countReadWriter.                       *)
(*                                                                         *)
(* Tasks (goroutines) and their program counters:                          *)
(*   runPc  Runner.Run itself (lines 41-132, deferred calls included)      *)
(*   wPc    the writer goroutine (lines 108-113) running writeRandomData   *)
(*          and copyContext                                                *)
(*   rPc    the reader goroutine (lines 99-105) running the coordinating   *)
(*          loop of drainContext (lines 160-173)                           *)
(*   iPc    the inner reading goroutine of drainContext (lines 143-159)    *)
(* The goroutine of lines 93-96 only logs and is left out.  Logging and    *)
(* tracing have no effect on the modelled state.                           *)
(*                                                                         *)
(* Errors are strings: "nil", "EOF" (io.EOF), "DeadlineExceeded",          *)
(* "Canceled" (the two context errors), "ErrIO" (any other stream error)   *)
(* and "ErrClosed" (an operation on a closed stream).                      *)
(***************************************************************************)
EXTENDS Integers, Sequences, FiniteSets, TLC

\* ---------------------------------------------------------------- bounds
\* The ticker fires at most MaxNow times in a modelled run.
MaxNow == 2
\* The underlying stream delivers at most MaxReads bytes; a later read
\* returns no byte or blocks.
MaxReads == 2

\* Configurations (BytesPerSecond, TicksPerSecond) a run is started with.
\* Run itself does no validation, so a configuration whose bytesPerTick
\* is 0 is among them.
Configs ==
    { [bps |-> 1, tps |-> 1], [bps |-> 2, tps |-> 1], [bps |-> 1, tps |-> 2] }

\* Durations (r.cfg.Duration, in whole tick intervals) a run is started with:
\* the deadline is due before the first tick, or after one tick.
Durations == {0, 1}

\* Characters cryptorand.String draws from (a two-letter stand-in).
Alphabet == {"a", "b"}

VARIABLES
    cfg,             \* r.cfg: BytesPerSecond, TicksPerSecond
    durTicks,        \* r.cfg.Duration, in whole tick intervals
    now,             \* number of times the ticker has fired
    tickPending,     \* tick.C (capacity 1) holds a tick
    tickStopped,     \* tick.Stop() has run
    callerCancelled, \* the caller cancelled the ctx passed to Run
    ctxErr,          \* deadlineCtx.Err(): "none" until the scope is done
    connState,       \* "none", "open", "closed", "failed"
    closeCalls,      \* number of conn.Close() calls
    runPc, result,   \* Run's position and its return value
    sent, rcvd,      \* the counters as loaded for the "results" log line
    wPc, wData, wIdx, wRet,     \* writer: position, envelope, byte index, outcome
    wLastErr,        \* what the last dst.Write of the current copy returned as error
    wRes,            \* (n, err) the underlying Write returned, until line 247 has run
    rPc, dErr, doneClosed,      \* reader: position, drainContext's outcome, close(done)
    iPc, iErr,                  \* inner reader: position, error it sends on errCh
    iRes,            \* (n, err) the underlying Read returned, until line 236 has run
    bytesRead, bytesWritten,    \* countReadWriter's atomic counters
    uReadBytes,      \* bytes the underlying stream returned, over all reads
    uReadOkBytes,    \* bytes returned by the reads that returned no error
    uWriteBytes,     \* bytes the underlying stream accepted, over all writes
    uWriteOkBytes,   \* bytes accepted by the writes that returned no error
    uReadsInFlight,  \* underlying reads called and not yet returned
    uWritesInFlight, \* underlying writes called and not yet returned
    uFault           \* an underlying read or write returned an error or EOF

vars ==
    << cfg, durTicks, now, tickPending, tickStopped, callerCancelled, ctxErr,
       connState, closeCalls, runPc, result, sent, rcvd,
       wPc, wData, wIdx, wRet, wLastErr, wRes, rPc, dErr, doneClosed, iPc, iErr, iRes,
       bytesRead, bytesWritten,
       uReadBytes, uReadOkBytes, uWriteBytes, uWriteOkBytes,
       uReadsInFlight, uWritesInFlight, uFault >>

timerVars == << now, tickPending, tickStopped >>
cfgVars == << cfg, durTicks >>
connVars == << connState, closeCalls >>
runVars == << runPc, result, sent, rcvd >>
writerVars == << wPc, wData, wIdx, wRet, wLastErr, wRes >>
readerVars == << rPc, dErr, doneClosed >>
innerVars == << iPc, iErr, iRes >>
readGhost == << uReadBytes, uReadOkBytes >>
writeGhost == << uWriteBytes, uWriteOkBytes >>
flightVars == << uReadsInFlight, uWritesInFlight >>

\* ------------------------------------------------------- pure functions

\* bytesPerTick = r.cfg.BytesPerSecond / r.cfg.TicksPerSecond (integer division)
bytesPerTick == cfg.bps \div cfg.tps

\* Run's return values.
NilResult == [op |-> "none", cause |-> "nil"]
WrapErr(op, err) == [op |-> op, cause |-> err]

\* No result of an underlying call is waiting to be counted.
NoRes == [n |-> 0, err |-> "nil"]

\* mustRandStr(n) for n >= 0: the strings of n characters.
RandStrs(n) == [1..n -> Alphabet]

\* A payload whose random part is one character too long.
Payloads_OffByOne(size) == { <<"#">> \o s : s \in RandStrs(size) }

\* payload := "#" + mustRandStr(size-1), for size >= 1
Payloads(size) == { <<"#">> \o s : s \in RandStrs(size - 1) }

\* json.Marshal(codersdk.ReconnectingPTYRequest{Data: payload}): the object's
\* textual encoding, one field "data" carrying the payload as a string.
Marshal(payload) ==
    << "{", "\"", "d", "a", "t", "a", "\"", ":", "\"" >> \o payload \o << "\"", "}" >>

\* The data field of an envelope (the inverse of Marshal).
Unmarshal(data) == SubSeq(data, 10, Len(data) - 2)

\* A meter that counts the bytes of failed calls too.
AddAlways(counter, n, err) == counter + n

\* A meter that resets its counter when a call fails.
AddOrReset(counter, n, err) == IF err = "nil" THEN counter + n ELSE 0

\* countReadWriter.Read / Write: the counter after an underlying call that
\* returned (n, err): n is added only when err is nil.
AddIfOk(counter, n, err) == IF err = "nil" THEN counter + n ELSE counter

\* io.CopyN(buf, src, 1) around one Read that returned (n, err): a byte
\* that arrived makes written == 1 and CopyN returns nil whatever err was;
\* no byte and EOF ends the copy with nothing written, which CopyN turns
\* into io.EOF; no byte and another error is returned as it is. After no
\* byte and no error CopyN does not return: bytes.Buffer.ReadFrom reads
\* again ("again").
CopyNErr(n, err) ==
    IF n = 1 THEN "nil"
    ELSE IF err = "nil" THEN "again"
    ELSE IF err = "EOF" THEN "EOF"
    ELSE err

\* A copyContext that returns every error of dst.Write.
CopyErr_AbsorbsNothing(err) == err

\* copyContext's handling of a failed dst.Write: io.EOF and
\* context.DeadlineExceeded end the copy without error.
CopyErr(err) == IF err \in {"EOF", "DeadlineExceeded"} THEN "nil" ELSE err

\* drainContext's handling of an error received from errCh.
DrainErr(err) == IF err = "EOF" THEN "nil" ELSE err

\* What the underlying stream may return from a one-byte Read.
ReadOutcomes ==
    { [n |-> 1, err |-> "nil"], [n |-> 1, err |-> "EOF"], [n |-> 1, err |-> "ErrIO"],
      [n |-> 0, err |-> "EOF"], [n |-> 0, err |-> "ErrIO"],
      [n |-> 0, err |-> "nil"] }

\* What the underlying stream may return from a one-byte Write.
WriteOutcomes ==
    { [n |-> 1, err |-> "nil"], [n |-> 0, err |-> "EOF"], [n |-> 0, err |-> "ErrIO"],
      [n |-> 1, err |-> "ErrIO"] }

\* ----------------------------------------------------------------- Init

Init ==
    /\ cfg \in Configs
    /\ durTicks \in Durations
    /\ now = 0
    /\ tickPending = FALSE
    /\ tickStopped = FALSE
    /\ callerCancelled = FALSE
    /\ ctxErr = "none"
    /\ connState = "none"
    /\ closeCalls = 0
    /\ runPc = "start"
    /\ result = NilResult
    /\ sent = 0
    /\ rcvd = 0
    /\ wPc = "idle"
    /\ wData = << >>
    /\ wIdx = 0
    /\ wRet = "nil"
    /\ wLastErr = "nil"
    /\ wRes = NoRes
    /\ rPc = "idle"
    /\ dErr = "nil"
    /\ doneClosed = FALSE
    /\ iPc = "idle"
    /\ iErr = "nil"
    /\ iRes = NoRes
    /\ bytesRead = 0
    /\ bytesWritten = 0
    /\ uReadBytes = 0
    /\ uReadOkBytes = 0
    /\ uWriteBytes = 0
    /\ uWriteOkBytes = 0
    /\ uReadsInFlight = 0
    /\ uWritesInFlight = 0
    /\ uFault = FALSE

\* ------------------------------------------------ timers and the caller

\* Run has created deadlineCtx, the ticker and the tasks (lines 78-113) and
\* the process is alive.
Started == wPc \notin {"idle", "crashed"}

\* The ticker (line 86) fires.  tick.C has capacity 1: a tick that finds the
\* channel full is dropped.  The deadline timer is due once durTicks
\* intervals have passed, so time does not pass that point before it fires.
Tick ==
    /\ Started
    /\ ~tickStopped
    /\ now < MaxNow
    /\ (now < durTicks \/ ctxErr # "none")
    /\ now' = now + 1
    /\ tickPending' = TRUE
    /\ UNCHANGED << tickStopped, cfgVars, callerCancelled, ctxErr, connVars, runVars,
                    writerVars, readerVars, innerVars, bytesRead, bytesWritten,
                    readGhost, writeGhost, flightVars, uFault >>

\* The deadline of deadlineCtx (line 79) expires.
Deadline ==
    /\ Started
    /\ ctxErr = "none"
    /\ now = durTicks
    /\ ctxErr' = "DeadlineExceeded"
    /\ UNCHANGED << timerVars, cfgVars, callerCancelled, connVars, runVars,
                    writerVars, readerVars, innerVars, bytesRead, bytesWritten,
                    readGhost, writeGhost, flightVars, uFault >>

\* The caller cancels the ctx passed to Run; deadlineCtx, derived from it,
\* is done with context.Canceled unless it was done already.
CallerCancel ==
    /\ runPc \notin {"returned", "crashed"}
    /\ ~callerCancelled
    /\ callerCancelled' = TRUE
    /\ ctxErr' = IF Started /\ ctxErr = "none" THEN "Canceled" ELSE ctxErr
    /\ UNCHANGED << timerVars, cfgVars, connVars, runVars,
                    writerVars, readerVars, innerVars, bytesRead, bytesWritten,
                    readGhost, writeGhost, flightVars, uFault >>

\* ------------------------------------------------------------ Runner.Run

\* Lines 60-70: open the session; a failure returns at once, before the
\* deferred Close is registered.
RunOpen ==
    /\ runPc = "start"
    /\ \E ok \in BOOLEAN :
         IF ok
         THEN /\ connState' = "open"
              /\ runPc' = "opened"
              /\ result' = result
         ELSE /\ connState' = "failed"
              /\ runPc' = "returned"
              /\ result' = WrapErr("connect to workspace", "ErrIO")
    /\ UNCHANGED << timerVars, cfgVars, callerCancelled, ctxErr, closeCalls, sent, rcvd,
                    writerVars, readerVars, innerVars, bytesRead, bytesWritten,
                    readGhost, writeGhost, flightVars, uFault >>

\* Lines 78-113: derive deadlineCtx from ctx, wrap conn, start the ticker,
\* make rch and wch and start the reader and the writer goroutines.
RunSetup ==
    /\ runPc = "opened"
    /\ ctxErr' = IF callerCancelled THEN "Canceled" ELSE "none"
    /\ rPc' = "start"
    /\ wPc' = "select"
    /\ runPc' = "waitW"
    /\ UNCHANGED << timerVars, cfgVars, callerCancelled, connVars, result, sent, rcvd,
                    wData, wIdx, wRet, wLastErr, wRes, dErr, doneClosed, innerVars,
                    bytesRead, bytesWritten, readGhost, writeGhost, flightVars, uFault >>

\* A Run that receives the writer's outcome and does not look at it.
RunRecvW_IgnoresError ==
    /\ runPc = "waitW"
    /\ wPc = "send"
    /\ wPc' = "done"
    /\ runPc' = "waitR"
    /\ UNCHANGED << timerVars, cfgVars, callerCancelled, ctxErr, connVars, result, sent, rcvd,
                    wData, wIdx, wRet, wLastErr, wRes, readerVars, innerVars,
                    bytesRead, bytesWritten, readGhost, writeGhost, flightVars, uFault >>

\* Lines 116-118: receive the writer's outcome from wch (the writer's send,
\* line 110, completes with it; the writer then closes wch and ends).
RunRecvW ==
    /\ runPc = "waitW"
    /\ wPc = "send"
    /\ wPc' = "done"
    /\ IF wRet # "nil"
       THEN /\ result' = WrapErr("write to pty", wRet)
            /\ runPc' = "deferStop"
       ELSE /\ result' = result
            /\ runPc' = "waitR"
    /\ UNCHANGED << timerVars, cfgVars, callerCancelled, ctxErr, connVars, sent, rcvd,
                    wData, wIdx, wRet, wLastErr, wRes, readerVars, innerVars,
                    bytesRead, bytesWritten, readGhost, writeGhost, flightVars, uFault >>

\* Lines 119-121: receive the reader's outcome from rch (the reader's send,
\* line 101, completes with it).
RunRecvR ==
    /\ runPc = "waitR"
    /\ rPc = "send"
    /\ rPc' = "close"
    /\ IF dErr # "nil"
       THEN /\ result' = WrapErr("read from pty", dErr)
            /\ runPc' = "deferStop"
       ELSE /\ result' = result
            /\ runPc' = "results"
    /\ UNCHANGED << timerVars, cfgVars, callerCancelled, ctxErr, connVars, sent, rcvd,
                    writerVars, dErr, doneClosed, innerVars,
                    bytesRead, bytesWritten, readGhost, writeGhost, flightVars, uFault >>

\* Lines 123-131: load the counters for the "results" log line; return nil.
RunResults ==
    /\ runPc = "results"
    /\ sent' = bytesWritten
    /\ rcvd' = bytesRead
    /\ runPc' = "deferStop"
    /\ UNCHANGED << timerVars, cfgVars, callerCancelled, ctxErr, connVars, result,
                    writerVars, readerVars, innerVars,
                    bytesRead, bytesWritten, readGhost, writeGhost, flightVars, uFault >>

\* Line 87, deferred: tick.Stop().
RunDeferStop ==
    /\ runPc = "deferStop"
    /\ tickStopped' = TRUE
    /\ runPc' = "deferCancel"
    /\ UNCHANGED << now, tickPending, cfgVars, callerCancelled, ctxErr, connVars,
                    result, sent, rcvd, writerVars, readerVars, innerVars,
                    bytesRead, bytesWritten, readGhost, writeGhost, flightVars, uFault >>

\* Line 80, deferred: cancel().
RunDeferCancel ==
    /\ runPc = "deferCancel"
    /\ ctxErr' = IF ctxErr = "none" THEN "Canceled" ELSE ctxErr
    /\ runPc' = "deferClose"
    /\ UNCHANGED << timerVars, cfgVars, callerCancelled, connVars,
                    result, sent, rcvd, writerVars, readerVars, innerVars,
                    bytesRead, bytesWritten, readGhost, writeGhost, flightVars, uFault >>

\* A Run that returns without the deferred conn.Close().
RunDeferClose_NoClose ==
    /\ runPc = "deferClose"
    /\ runPc' = "returned"
    /\ UNCHANGED << timerVars, cfgVars, callerCancelled, ctxErr, connVars,
                    result, sent, rcvd, writerVars, readerVars, innerVars,
                    bytesRead, bytesWritten, readGhost, writeGhost, flightVars, uFault >>

\* Lines 72-75, deferred: conn.Close(); then Run returns to its caller.
RunDeferClose ==
    /\ runPc = "deferClose"
    /\ connState' = "closed"
    /\ closeCalls' = closeCalls + 1
    /\ runPc' = "returned"
    /\ UNCHANGED << timerVars, cfgVars, callerCancelled, ctxErr,
                    result, sent, rcvd, writerVars, readerVars, innerVars,
                    bytesRead, bytesWritten, readGhost, writeGhost, flightVars, uFault >>

\* -------------------------------------- writeRandomData and copyContext

\* Line 179: the writer's select takes <-ctx.Done() and returns nil.
WriterSelectDone ==
    /\ wPc = "select"
    /\ ctxErr # "none"
    /\ wRet' = "nil"
    /\ wLastErr' = "nil"
    /\ wPc' = "send"
    /\ UNCHANGED << timerVars, cfgVars, callerCancelled, ctxErr, connVars, runVars,
                    wData, wIdx, wRes, readerVars, innerVars,
                    bytesRead, bytesWritten, readGhost, writeGhost, flightVars, uFault >>

\* Lines 181-188: the select takes a tick; the payload is drawn and
\* marshalled.  With bytesPerTick = 0 mustRandStr(-1) panics (cryptorand
\* cannot make a string of negative length) and the process dies.
\* json.Marshal of a struct holding a string cannot fail.
WriterSelectTick ==
    /\ wPc = "select"
    /\ tickPending
    /\ tickPending' = FALSE
    /\ wLastErr' = "nil"
    /\ IF bytesPerTick < 1
       THEN /\ wPc' = "crashed"
            /\ runPc' = "crashed"
            /\ rPc' = "crashed"
            /\ iPc' = "crashed"
            /\ wData' = wData
       ELSE /\ \E payload \in Payloads(bytesPerTick) : wData' = Marshal(payload)
            /\ wPc' = "copy"
            /\ UNCHANGED << runPc, rPc, iPc >>
    /\ UNCHANGED << now, tickStopped, cfgVars, callerCancelled, ctxErr, connVars,
                    result, sent, rcvd, wIdx, wRet, wRes, dErr, doneClosed, iErr, iRes,
                    bytesRead, bytesWritten, readGhost, writeGhost, flightVars, uFault >>

\* Lines 199-204: copyContext's select, entered once per payload: a done
\* ctx returns (0, nil); otherwise the byte loop starts.
WriterCopySelect ==
    /\ wPc = "copy"
    /\ IF ctxErr # "none"
       THEN /\ wPc' = "select"
            /\ wData' = << >>
            /\ wIdx' = 0
       ELSE /\ wPc' = "write"
            /\ wData' = wData
            /\ wIdx' = 1
    /\ UNCHANGED << timerVars, cfgVars, callerCancelled, ctxErr, connVars, runVars,
                    wRet, wLastErr, wRes, readerVars, innerVars,
                    bytesRead, bytesWritten, readGhost, writeGhost, flightVars, uFault >>

\* Lines 205, 242-246: dst.Write(src[idx:idx+1]) enters countReadWriter.Write.
\* A done ctx fails fast with ctx.Err(); otherwise the underlying Write is
\* called, and it either is going to return or blocks until the stream is
\* closed.
WriterWrite ==
    /\ wPc = "write"
    /\ IF ctxErr # "none"
       THEN /\ wLastErr' = ctxErr
            /\ wRet' = CopyErr(ctxErr)
            /\ wPc' = IF CopyErr(ctxErr) = "nil" THEN "select" ELSE "send"
            /\ wData' = << >>
            /\ wIdx' = 0
            /\ UNCHANGED flightVars
       ELSE /\ \E blocks \in BOOLEAN :
                 wPc' = IF blocks THEN "blockedWrite" ELSE "inWrite"
            /\ uWritesInFlight' = uWritesInFlight + 1
            /\ UNCHANGED << wData, wIdx, wRet, wLastErr, uReadsInFlight >>
    /\ UNCHANGED << timerVars, cfgVars, callerCancelled, ctxErr, connVars, runVars,
                    wRes, readerVars, innerVars,
                    bytesRead, bytesWritten, readGhost, writeGhost, uFault >>

\* Line 246: the underlying Write returns (n, err) to countReadWriter.Write,
\* which has not yet reached the counter.
WriterWriteReturn ==
    /\ wPc = "inWrite"
    /\ \E o \in WriteOutcomes :
         /\ wRes' = o
         /\ uWriteBytes' = uWriteBytes + o.n
         /\ uWriteOkBytes' = IF o.err = "nil" THEN uWriteOkBytes + o.n ELSE uWriteOkBytes
         /\ uFault' = (uFault \/ o.err # "nil")
    /\ uWritesInFlight' = uWritesInFlight - 1
    /\ wPc' = "writeRet"
    /\ UNCHANGED << timerVars, cfgVars, callerCancelled, ctxErr, connVars, runVars,
                    wData, wIdx, wRet, wLastErr, readerVars, innerVars,
                    bytesRead, bytesWritten, readGhost, uReadsInFlight >>

\* Lines 247-250, 206-218: countReadWriter.Write adds n when err is nil and
\* returns; copyContext goes on to the next byte, ends the copy (all bytes
\* written, or an absorbed error) or returns the error, which
\* writeRandomData returns (lines 189-191).
WriterWriteCount ==
    /\ wPc = "writeRet"
    /\ bytesWritten' = AddIfOk(bytesWritten, wRes.n, wRes.err)
    /\ wLastErr' = wRes.err
    /\ wRes' = NoRes
    /\ IF wRes.err = "nil" /\ wIdx < Len(wData)
       THEN /\ wPc' = "write"
            /\ wIdx' = wIdx + 1
            /\ UNCHANGED << wData, wRet >>
       ELSE /\ wRet' = CopyErr(wRes.err)
            /\ wPc' = IF CopyErr(wRes.err) = "nil" THEN "select" ELSE "send"
            /\ wData' = << >>
            /\ wIdx' = 0
    /\ UNCHANGED << timerVars, cfgVars, callerCancelled, ctxErr, connVars, runVars,
                    readerVars, innerVars, bytesRead, readGhost, writeGhost,
                    flightVars, uFault >>

\* ------------------------------------------------------- drainContext

\* Lines 140-159: drainContext makes errCh and done and starts the inner
\* reading goroutine; the coordinating loop arrives at its select.
ReaderStart ==
    /\ rPc = "start"
    /\ rPc' = "select"
    /\ iPc' = "loop"
    /\ UNCHANGED << timerVars, cfgVars, callerCancelled, ctxErr, connVars, runVars,
                    writerVars, dErr, doneClosed, iErr, iRes,
                    bytesRead, bytesWritten, readGhost, writeGhost, flightVars, uFault >>

\* Line 161: no case of the select is ready; the coordinating loop parks
\* on ctx.Done() and errCh.
ReaderPark ==
    /\ rPc = "select"
    /\ ctxErr = "none"
    /\ iPc # "sendErr"
    /\ rPc' = "parked"
    /\ UNCHANGED << timerVars, cfgVars, callerCancelled, ctxErr, connVars, runVars,
                    writerVars, dErr, doneClosed, innerVars,
                    bytesRead, bytesWritten, readGhost, writeGhost, flightVars, uFault >>

\* Lines 162-164: the select takes <-ctx.Done(): close(done), return nil.
\* A parked select is taken by whichever channel operation comes first, so
\* a parked loop whose ctx is done can only take this case.
ReaderTakeDone ==
    /\ rPc \in {"select", "parked"}
    /\ ctxErr # "none"
    /\ doneClosed' = TRUE
    /\ dErr' = "nil"
    /\ rPc' = "send"
    /\ UNCHANGED << timerVars, cfgVars, callerCancelled, ctxErr, connVars, runVars,
                    writerVars, innerVars,
                    bytesRead, bytesWritten, readGhost, writeGhost, flightVars, uFault >>

\* Lines 153-155 and 165-171: the inner task's send on errCh meets the
\* select's receive; io.EOF returns nil, any other error is returned.  The
\* inner task closes errCh and ends.  A select that has not parked yet
\* chooses among its ready cases, so this can happen with ctx done as well.
ReaderTakeErr ==
    /\ iPc = "sendErr"
    /\ \/ rPc = "select"
       \/ rPc = "parked" /\ ctxErr = "none"
    /\ dErr' = DrainErr(iErr)
    /\ rPc' = "send"
    /\ iPc' = "exit"
    /\ UNCHANGED << timerVars, cfgVars, callerCancelled, ctxErr, connVars, runVars,
                    writerVars, doneClosed, iErr, iRes,
                    bytesRead, bytesWritten, readGhost, writeGhost, flightVars, uFault >>

\* Lines 103-104: after its send on rch was received the reader goroutine
\* calls conn.Close(), closes rch and ends.
ReaderClose ==
    /\ rPc = "close"
    /\ connState' = "closed"
    /\ closeCalls' = closeCalls + 1
    /\ rPc' = "done"
    /\ UNCHANGED << timerVars, cfgVars, callerCancelled, ctxErr, runVars,
                    writerVars, dErr, doneClosed, innerVars,
                    bytesRead, bytesWritten, readGhost, writeGhost, flightVars, uFault >>

\* Lines 146-150: the inner task polls done; closed, it returns.
InnerLoop ==
    /\ iPc = "loop"
    /\ iPc' = IF doneClosed THEN "exit" ELSE "read"
    /\ UNCHANGED << timerVars, cfgVars, callerCancelled, ctxErr, connVars, runVars,
                    writerVars, readerVars, iErr, iRes,
                    bytesRead, bytesWritten, readGhost, writeGhost, flightVars, uFault >>

\* A countReadWriter.Read that calls the underlying Read without looking at
\* ctx.Err().
InnerRead_NoScopeCheck ==
    /\ iPc = "read"
    /\ \E blocks \in BOOLEAN :
         iPc' = IF blocks THEN "blockedRead" ELSE "inRead"
    /\ uReadsInFlight' = uReadsInFlight + 1
    /\ UNCHANGED << timerVars, cfgVars, callerCancelled, ctxErr, connVars, runVars,
                    writerVars, readerVars, iErr, iRes,
                    bytesRead, bytesWritten, readGhost, writeGhost,
                    uWritesInFlight, uFault >>

\* An inner loop that hands each Read to a goroutine of its own and polls
\* done again without waiting for the Read to return.
InnerRead_Detached ==
    /\ iPc = "read"
    /\ IF ctxErr # "none"
       THEN /\ iErr' = CopyNErr(0, ctxErr)
            /\ iPc' = "sendErr"
            /\ UNCHANGED flightVars
       ELSE /\ uReadsInFlight < 2
            /\ iPc' = "loop"
            /\ uReadsInFlight' = uReadsInFlight + 1
            /\ UNCHANGED << iErr, uWritesInFlight >>
    /\ UNCHANGED << timerVars, cfgVars, callerCancelled, ctxErr, connVars, runVars,
                    writerVars, readerVars, iRes,
                    bytesRead, bytesWritten, readGhost, writeGhost, uFault >>

\* Lines 151, 231-235: io.CopyN reads one byte through countReadWriter.Read.
\* A done ctx fails fast with ctx.Err(), which CopyN returns; otherwise the
\* underlying Read is called, and it either is going to return or blocks
\* until the stream is closed.
InnerRead ==
    /\ iPc = "read"
    /\ IF ctxErr # "none"
       THEN /\ iErr' = CopyNErr(0, ctxErr)
            /\ iPc' = "sendErr"
            /\ UNCHANGED flightVars
       ELSE /\ \E blocks \in BOOLEAN :
                 iPc' = IF blocks THEN "blockedRead" ELSE "inRead"
            /\ uReadsInFlight' = uReadsInFlight + 1
            /\ UNCHANGED << iErr, uWritesInFlight >>
    /\ UNCHANGED << timerVars, cfgVars, callerCancelled, ctxErr, connVars, runVars,
                    writerVars, readerVars, iRes,
                    bytesRead, bytesWritten, readGhost, writeGhost, uFault >>

\* Line 235: the underlying Read returns (n, err) to countReadWriter.Read,
\* which has not yet reached the counter.
InnerReadReturn ==
    /\ iPc = "inRead"
    /\ \E o \in ReadOutcomes :
         /\ uReadBytes + o.n <= MaxReads
         /\ iRes' = o
         /\ uReadBytes' = uReadBytes + o.n
         /\ uReadOkBytes' = IF o.err = "nil" THEN uReadOkBytes + o.n ELSE uReadOkBytes
         /\ uFault' = (uFault \/ o.err # "nil")
    /\ uReadsInFlight' = uReadsInFlight - 1
    /\ iPc' = "readRet"
    /\ UNCHANGED << timerVars, cfgVars, callerCancelled, ctxErr, connVars, runVars,
                    writerVars, readerVars, iErr, bytesRead, bytesWritten,
                    writeGhost, uWritesInFlight >>

\* Lines 236-240, 151-156: countReadWriter.Read adds n when err is nil and
\* returns; CopyN's error, if any, is to be sent on errCh.  After (0, nil)
\* CopyN calls countReadWriter.Read again without returning to the select
\* on done.
InnerReadCount ==
    /\ iPc = "readRet"
    /\ bytesRead' = AddIfOk(bytesRead, iRes.n, iRes.err)
    /\ iErr' = IF CopyNErr(iRes.n, iRes.err) = "again" THEN iErr
               ELSE CopyNErr(iRes.n, iRes.err)
    /\ iPc' = IF CopyNErr(iRes.n, iRes.err) = "nil" THEN "loop"
              ELSE IF CopyNErr(iRes.n, iRes.err) = "again" THEN "read"
              ELSE "sendErr"
    /\ iRes' = NoRes
    /\ UNCHANGED << timerVars, cfgVars, callerCancelled, ctxErr, connVars, runVars,
                    writerVars, readerVars, bytesWritten, readGhost, writeGhost,
                    flightVars, uFault >>

\* A Read or Write blocked in the underlying stream returns (0, error) to
\* countReadWriter once the stream is closed.
StreamUnblock ==
    /\ connState = "closed"
    /\ \E who \in {"reader", "writer"} :
         IF who = "reader"
         THEN /\ iPc = "blockedRead"
              /\ iRes' = [n |-> 0, err |-> "ErrClosed"]
              /\ iPc' = "readRet"
              /\ uReadsInFlight' = uReadsInFlight - 1
              /\ UNCHANGED << writerVars, iErr, uWritesInFlight >>
         ELSE /\ wPc = "blockedWrite"
              /\ wRes' = [n |-> 0, err |-> "ErrClosed"]
              /\ wPc' = "writeRet"
              /\ uWritesInFlight' = uWritesInFlight - 1
              /\ UNCHANGED << innerVars, wData, wIdx, wRet, wLastErr, uReadsInFlight >>
    /\ uFault' = TRUE
    /\ UNCHANGED << timerVars, cfgVars, callerCancelled, ctxErr, connVars, runVars,
                    readerVars, bytesRead, bytesWritten, readGhost, writeGhost >>

\* ------------------------------------------------------- specification

\* The steps of the program's own tasks.
ProgramStep ==
    \/ RunOpen \/ RunSetup \/ RunRecvW \/ RunRecvR \/ RunResults
    \/ RunDeferStop \/ RunDeferCancel \/ RunDeferClose
    \/ WriterSelectDone \/ WriterSelectTick \/ WriterCopySelect
    \/ WriterWrite \/ WriterWriteReturn \/ WriterWriteCount
    \/ ReaderStart \/ ReaderPark \/ ReaderTakeDone \/ ReaderTakeErr \/ ReaderClose
    \/ InnerLoop \/ InnerRead \/ InnerReadReturn \/ InnerReadCount
    \/ StreamUnblock

Next == ProgramStep \/ Tick \/ Deadline \/ CallerCancel

Spec == Init /\ [][Next]_vars

\* --------------------------------------------------------------- claims

\* The session was opened and Run has returned to its caller.
ReturnedAfterOpen == runPc = "returned" /\ connState # "failed"

\* C1: when the session opened, the caller never cancelled and no underlying
\* read or write returned an error or EOF, Run returns nil.
C1_DeadlineOnlySuccess ==
    (ReturnedAfterOpen /\ ~callerCancelled /\ ~uFault) => result = NilResult

\* C2: once the deadline scope is done Run returns: it is never the case
\* that the scope is done, Run has not returned and no task can take a step.
C2_ReturnsOnceScopeDone ==
    (ctxErr # "none" /\ runPc \notin {"returned", "crashed"}) => ENABLED ProgramStep

\* C3: when the caller's cancellation ended the scope and no underlying read
\* or write returned an error, the writer and the reader report success and
\* Run returns nil.
C3_CancelIsNotAnError ==
    (ReturnedAfterOpen /\ callerCancelled /\ ctxErr = "Canceled" /\ ~uFault)
        => (wRet = "nil" /\ dErr = "nil" /\ result = NilResult)

\* The drain reader has reported success on end-of-stream and the scope is
\* not done.
ReaderEndedOnEOF == rPc = "send" /\ dErr = "nil" /\ iErr = "EOF" /\ ctxErr = "none"

\* C4: after the drain reader ended on end-of-stream before the deadline,
\* Run returns without waiting for the scope to expire: it is never the case
\* that Run has not returned and only the scope's expiry or cancellation
\* can happen next.
C4_PromptReturnOnEOF ==
    (ReaderEndedOnEOF /\ runPc \notin {"returned", "crashed"})
        => ENABLED (ProgramStep \/ Tick)

\* C5 as stated: at every state the written counter is the number of bytes
\* the stream accepted and the read counter is the number of bytes the
\* stream returned, over all underlying calls.
C5_CountersMatchStream ==
    bytesWritten = uWriteBytes /\ bytesRead = uReadBytes

\* Bytes an underlying call has returned without error and its meter
\* has not yet added (the call is between lines 235 and 237, or 246 and 248).
PendingRead == IF iRes.err = "nil" THEN iRes.n ELSE 0
PendingWrite == IF wRes.err = "nil" THEN wRes.n ELSE 0

\* C5 as amended: at every state each counter, together with the bytes of
\* the one call of its direction that has returned without error and is
\* not yet added, is the number of bytes transferred by the underlying
\* calls of that direction that returned no error; when the results are
\* loaded the written count is exactly that number and the read count is
\* short of it by no more than the pending read.
C5_CountersMatchOkCalls ==
    /\ [](/\ bytesWritten + PendingWrite = uWriteOkBytes
          /\ bytesRead + PendingRead = uReadOkBytes)
    /\ [][RunResults => (/\ sent' = uWriteOkBytes
                         /\ rcvd' = uReadOkBytes - PendingRead)]_vars

\* C5 witness: a completed run whose results were loaded while a read that
\* returned a byte without error was not yet added, after a read that
\* returned a byte together with an error.
C5_Witness ==
    /\ ReturnedAfterOpen /\ result = NilResult
    /\ sent > 0 /\ rcvd = 0
    /\ uReadBytes = 2 /\ uReadOkBytes = 1
    /\ iPc = "readRet" /\ iRes = [n |-> 1, err |-> "nil"]

\* C6: when Run has returned, conn.Close() has been called once if the
\* session was opened and never if opening failed, and it is never called
\* a second time.
C6_ClosedExactlyOnce ==
    /\ closeCalls <= 1
    /\ runPc = "returned" => closeCalls = (IF connState = "failed" THEN 0 ELSE 1)

\* C7: whenever Run has returned after the session was opened, the stream
\* is closed.
C7_ClosedWhenReturned ==
    ReturnedAfterOpen => (connState = "closed" /\ closeCalls >= 1)

\* C7 witness: Run has returned a writer error (the reader goroutine never
\* reaches its own Close) and the stream is closed.
C7_Witness ==
    /\ ReturnedAfterOpen /\ result.op = "write to pty"
    /\ connState = "closed"

\* C8: the reader's outcome is received only after the writer's, and only
\* when the writer's is nil; a returned Run carries the writer's error as a
\* write failure if there is one, else the reader's error as a read failure
\* if there is one, else nil.
C8_WriterFirstPrecedence ==
    /\ rPc \in {"close", "done"} => (wPc = "done" /\ wRet = "nil")
    /\ ReturnedAfterOpen =>
         /\ wPc = "done"
         /\ IF wRet # "nil"
            THEN result = WrapErr("write to pty", wRet)
            ELSE /\ rPc \in {"close", "done"}
                 /\ result = IF dErr # "nil" THEN WrapErr("read from pty", dErr)
                                             ELSE NilResult

\* C8 witness: both tasks failed on a stream error and Run returned the
\* writer's error.
C8_Witness ==
    /\ ReturnedAfterOpen
    /\ wRet = "ErrIO" /\ dErr = "ErrIO" /\ rPc = "send"
    /\ result = WrapErr("write to pty", wRet)

\* C9: after a full-length run against a stream that accepted every write,
\* the written counter is within bytesPerTick of bytesPerTick * N, N the
\* number of ticks inside the duration.
C9_RateBound ==
    (ReturnedAfterOpen /\ result = NilResult /\ ~callerCancelled /\ ~uFault)
        => /\ bytesWritten - bytesPerTick * durTicks <= bytesPerTick
           /\ bytesPerTick * durTicks - bytesWritten <= bytesPerTick

\* C10: with bytesPerTick = 0 no attempt is made to open the session.
C10_InvalidConfigRejected ==
    bytesPerTick < 1 => connState = "none"

\* C11: the envelope the writer has synthesized on a tick decodes to data
\* that begins with "#" and is exactly bytesPerTick characters long.
C11_PayloadShape ==
    wData # << >> =>
        /\ bytesPerTick >= 1
        /\ Len(Unmarshal(wData)) = bytesPerTick
        /\ Unmarshal(wData)[1] = "#"
        /\ \A i \in 2..bytesPerTick : Unmarshal(wData)[i] \in Alphabet

\* C11 witness: a two-character payload, marker and one random character,
\* is being written.
C11_Witness ==
    /\ wData # << >> /\ wPc = "inWrite" /\ wIdx = 11
    /\ bytesPerTick = 2
    /\ Unmarshal(wData) = << "#", "b" >>

\* C12: whenever conn.Close() has been called, the writer task has ended
\* and the reader's drainContext has returned.
C12_TasksEndBeforeClose ==
    closeCalls > 0 => (wPc = "done" /\ rPc \in {"send", "close", "done"})

\* C13: after Run has returned, neither the writer goroutine nor the reader
\* goroutine is waiting to send its outcome (no receiver will ever come).
C13_NoTaskLeftOnSignal ==
    ReturnedAfterOpen => (wPc # "send" /\ rPc # "send")

\* The steps the inner reading task can take (its send on errCh needs the
\* coordinating loop's receive).
InnerStep ==
InnerLoop \/ InnerRead \/ InnerReadReturn \/ InnerReadCount
        \/ StreamUnblock \/ ReaderTakeErr

\* C14: once the coordinating loop has returned on cancellation and the
\* stream is closed, the inner reading task has ended or can take a step:
\* it is never left blocked.
C14_AbandonedReadEnds ==
    (doneClosed /\ connState = "closed" /\ iPc \notin {"exit", "crashed"})
        => ENABLED InnerStep

\* C15: a byte write that failed with EOF or DeadlineExceeded leaves the
\* writer running with no error; a byte write that failed with any other
\* error ends the writer with that error as its outcome; the writer's
\* outcome is never non-nil otherwise.
C15_WriterErrorPolicy ==
    /\ wRet \notin {"EOF", "DeadlineExceeded"}
    /\ wLastErr \in {"EOF", "DeadlineExceeded"} => (wRet = "nil" /\ wPc = "select")
    /\ wLastErr \notin {"nil", "EOF", "DeadlineExceeded"}
         => (wRet = wLastErr /\ wPc \in {"send", "done"})
    /\ wRet # "nil" => wLastErr = wRet

\* C15 witness: an underlying Write returned EOF before the scope was done
\* and the writer, with no error, is back at its select.
C15_Witness ==
    /\ wLastErr = "EOF" /\ wRet = "nil" /\ wPc = "select"
    /\ ctxErr = "none" /\ bytesWritten > 0

\* C16: after an underlying Read has failed the inner task reads no more,
\* and the error the coordinating loop received decides the outcome: nil
\* for EOF, else that error.
C16_FirstFailedReadEnds ==
    /\ uReadBytes > uReadOkBytes => iPc \in {"readRet", "sendErr", "exit", "crashed"}
    /\ (iPc = "exit" /\ ~doneClosed) => dErr = DrainErr(iErr)

\* C17: a meter Write or Read entered with the scope done returns zero
\* bytes and the scope's error, and the underlying stream is not called.
C17_FailFastWhenScopeDone ==
    [][ /\ (wPc = "write" /\ ctxErr # "none" /\ wPc' # "write")
            => /\ wPc' \notin {"inWrite", "blockedWrite"}
               /\ wLastErr' = ctxErr
               /\ bytesWritten' = bytesWritten /\ uWriteBytes' = uWriteBytes
               /\ uWritesInFlight' = uWritesInFlight
        /\ (iPc = "read" /\ ctxErr # "none" /\ iPc' \notin {"read", "crashed"})
            => /\ iPc' \notin {"inRead", "blockedRead"}
               /\ iErr' = ctxErr
               /\ bytesRead' = bytesRead
               /\ uReadBytes' = uReadBytes
               /\ uReadsInFlight' = uReadsInFlight ]_vars

\* C17 witness: the writer's Write and the inner task's Read have both
\* failed fast on the expired deadline.
C17_Witness ==
    /\ wLastErr = "DeadlineExceeded" /\ wPc = "select"
    /\ iErr = "DeadlineExceeded" /\ iPc = "sendErr"

\* C18: no step lowers a counter; a counter moves only when an underlying
\* call of its own direction returns without error, by that call's byte
\* count, and the other counter stays; a call that returns an error, failing
\* fast or in the stream, leaves both counters as they were.
C18_CountersMoveOnlyOnSuccess ==
    [][ /\ bytesRead' >= bytesRead /\ bytesWritten' >= bytesWritten
        /\ bytesRead' # bytesRead
            => /\ iPc = "readRet" /\ iRes.err = "nil"
               /\ bytesRead' - bytesRead = iRes.n
               /\ bytesWritten' = bytesWritten
        /\ bytesWritten' # bytesWritten
            => /\ wPc = "writeRet" /\ wRes.err = "nil"
               /\ bytesWritten' - bytesWritten = wRes.n
               /\ bytesRead' = bytesRead
        /\ (\/ wPc = "writeRet" /\ wRes.err # "nil" /\ wPc' # wPc
            \/ wPc = "write" /\ ctxErr # "none" /\ wPc' # wPc
            \/ iPc = "readRet" /\ iRes.err # "nil" /\ iPc' # iPc
            \/ iPc = "read" /\ ctxErr # "none" /\ iPc' # iPc)
            => (bytesWritten' = bytesWritten /\ bytesRead' = bytesRead) ]_vars

\* C18 witness: after one counted read and one counted write, a Read that
\* returned a byte with an error and a Write that returned EOF have left
\* the counters where they were.
C18_Witness ==
    /\ bytesRead = 1 /\ uReadBytes = 2
    /\ bytesWritten = 1 /\ wLastErr = "EOF"

\* C19: at every state at most one underlying Read and at most one
\* underlying Write are in flight (called and not yet returned).
C19_OneCallPerDirection ==
    /\ uReadsInFlight \in {0, 1}
    /\ uWritesInFlight \in {0, 1}

\* C19 witness: the inner task's Read and the writer's Write are in flight
\* at the same time.
C19_Witness ==
    /\ uReadsInFlight = 1 /\ uWritesInFlight = 1
    /\ iPc = "inRead" /\ wPc = "inWrite"

\* C20: when Run loads the counters for the result the stream has been
\* closed and no underlying Read or Write is in flight.
C20_CloseBeforeCounters ==
    [][ RunResults =>
          /\ connState = "closed"
          /\ iPc \notin {"inRead", "blockedRead"}
          /\ wPc \notin {"inWrite", "blockedWrite"} ]_vars

====
